---- MODULE Spec2Model ----
(***************************************************************************)
(* Model of crudapp.py: the data layer of the patient management           *)
(* application (one SQLite table "patients"), run the way the Streamlit    *)
(* script runs it: every script run calls init_db() first (table, columns, *)
(* backfill) and then serves data-layer calls.                             *)
(*                                                                         *)
(* TEXT values that SQL matches with LIKE (names, email, phone) are        *)
(* sequences of one-character strings; dates are ISO strings; the SQL      *)
(* NULL / Python None of a date column is the value NULL.                  *)
(*                                                                         *)
(* A statement of init_db / migrate_db may fail (the database is locked,   *)
(* the disk is full): the code lets some of these failures end the run and *)
(* swallows others. The calls served afterwards are modelled with          *)
(* statements that raise nothing but the UNIQUE IntegrityError.            *)
(***************************************************************************)
EXTENDS Integers, Sequences, FiniteSets, TLC

\* ------------------------------------------------------------------ bounds

\* AUTOINCREMENT counter values explored: add is offered while the counter
\* is below MaxId.
MaxId == 3

\* Connections left open by calls that have ended; calls that may leave one
\* behind are offered while at most this many are open.
MaxLeaked == 1

\* ------------------------------------------------------------- text values

NULL == "NULL"

\* Python None passed for a text parameter of search_patients.
None == <<"None">>

\* The sentinel of the two select boxes.
All == <<"A", "l", "l">>

D0 == "1990-05-17"
D1 == "2026-11-03"
D2 == "2026-11-04"

\* datetime.date.today().isoformat() on the days the script is run.
Today == {D1, D2}

Smith == <<"S", "m", "i", "t", "h">>
smith == <<"s", "m", "i", "t", "h">>
Jones == <<"J", "o", "n", "e", "s">>

EmailA == <<"a", "@", "x", ".", "c", "o">>
EmailB == <<"b", "@", "y", ".", "c", "o">>
EmailC == <<"c", "@", "x", ".", "c", "o">>
EmailAUpper == <<"A", "@", "X", ".", "c", "o">>

DomainX == <<"x", ".", "c", "o">>
DomainY == <<"y", ".", "c", "o">>

Phone5 == <<"5", "5", "5", "0", "0", "0", "1", "1", "1", "1">>

Fields(fn, ln, addr, em, ph, dob, doe) ==
    [first_name |-> fn, last_name |-> ln, address |-> addr, email |-> em,
     phone |-> ph, date_of_birth |-> dob, date_of_entry |-> doe]

\* The field values the form handlers pass to add_patient / update_patient:
\* stripped strings, a non-empty name, a well-formed email, an optional
\* phone and date of birth, and a date of entry that is never None.
F1 == Fields(<<"A", "l">>, Smith, "", EmailA, <<>>, NULL, D1)
F2 == Fields(<<"B", "o">>, Smith, "12 Elm St", EmailB, Phone5, D0, D1)
F3 == Fields(<<"C", "y">>, Jones, "", EmailC, <<>>, D0, D2)
F4 == Fields(<<"a", "l">>, smith, "9 Oak Rd", EmailA, Phone5, D0, D2)
F5 == Fields(<<"D", "i">>, Jones, "", EmailAUpper, <<>>, NULL, D2)

FieldSets == {F1, F2, F3, F4, F5}

Row(id, f) ==
    [id |-> id, first_name |-> f.first_name, last_name |-> f.last_name,
     address |-> f.address, email |-> f.email, phone |-> f.phone,
     date_of_birth |-> f.date_of_birth, date_of_entry |-> f.date_of_entry]

\* A row written before the two date columns existed reads as NULL in both
\* once ALTER TABLE has added them.
Legacy(id, f) == [Row(id, f) EXCEPT !.date_of_birth = NULL, !.date_of_entry = NULL]

\* Database files found at the first run: none, or a table created by the
\* same CREATE TABLE statement before the date columns were introduced.
\* Each is [rows, seq, ever]: the rows, the AUTOINCREMENT counter and the ids
\* rows have had (in the third one the row with the highest id was deleted).
LegacyTables ==
    { [rows |-> {}, seq |-> 0, ever |-> {}],
      [rows |-> {Legacy(1, F1)}, seq |-> 1, ever |-> {1}],
      [rows |-> {Legacy(1, F1)}, seq |-> 2, ever |-> {1, 2}],
      [rows |-> {Legacy(1, F1), Legacy(2, F2)}, seq |-> 2, ever |-> {1, 2}] }

BaseColumns == {"id", "first_name", "last_name", "address", "email", "phone"}

\* The ids calls are made with: ids of stored rows, of deleted rows and ids
\* never assigned.
Ids == 1..MaxId

\* ------------------------------------------------------------------- state

VARIABLES
    tableExists,      \* the patients table exists in patients.db
    columns,          \* its column names
    patients,         \* its rows
    sqlite_sequence,  \* the AUTOINCREMENT counter of the table
    everIds,          \* history: every id a stored row has had
    pc,               \* position of the current script run
    failedStep,       \* the startup step that failed in the current run
    open,             \* connections currently open
    lastCall,         \* the data-layer call made by the last step
    ret               \* what that call returned

vars == <<tableExists, columns, patients, sqlite_sequence, everIds, pc,
          failedStep, open, lastCall, ret>>

store == <<tableExists, columns, patients, sqlite_sequence, everIds>>

\* ------------------------------------------------------------ text matching

\* Code point of a character (Python's sorted and SQLite's BINARY collation
\* compare by code point).
Code(c) ==
    CASE c = "%" -> 37 [] c = "." -> 46 [] c = "0" -> 48 [] c = "1" -> 49
      [] c = "5" -> 53 [] c = "@" -> 64 [] c = "A" -> 65 [] c = "B" -> 66
      [] c = "C" -> 67 [] c = "D" -> 68 [] c = "J" -> 74 [] c = "S" -> 83
      [] c = "X" -> 88 [] c = "_" -> 95 [] c = "a" -> 97 [] c = "b" -> 98
      [] c = "c" -> 99 [] c = "e" -> 101 [] c = "h" -> 104 [] c = "i" -> 105
      [] c = "l" -> 108 [] c = "m" -> 109 [] c = "n" -> 110 [] c = "o" -> 111
      [] c = "s" -> 115 [] c = "t" -> 116 [] c = "x" -> 120 [] c = "y" -> 121

\* SQLite's LIKE folds the case of ASCII letters.
FoldCode(c) == IF Code(c) \in 65..90 THEN Code(c) + 32 ELSE Code(c)

\* SQLite's  str LIKE pat  (no ESCAPE): % matches any run of characters,
\* _ matches any one character, every other character matches itself
\* without regard to ASCII case.
RECURSIVE Like(_, _)
Like(pat, str) ==
    IF pat = <<>> THEN str = <<>>
    ELSE IF Head(pat) = "%"
         THEN Like(Tail(pat), str) \/ (str # <<>> /\ Like(pat, Tail(str)))
         ELSE /\ str # <<>>
              /\ (Head(pat) = "_" \/ FoldCode(Head(pat)) = FoldCode(Head(str)))
              /\ Like(Tail(pat), Tail(str))

\* Python truthiness of an optional string: None and "" are false.
Truthy(v) == v # None /\ v # <<>>

\* s[i..] for a 1-based i.
From(s, i) == SubSeq(s, i, Len(s))

\* "@" in email
HasAt(s) == \E i \in 1..Len(s) : s[i] = "@"

\* The text before the first "@" of s, or all of s when it has none.
RECURSIVE BeforeAt(_)
BeforeAt(s) ==
    IF s = <<>> \/ Head(s) = "@" THEN <<>> ELSE <<Head(s)>> \o BeforeAt(Tail(s))

\* email.split("@")[1] for an email that contains "@": what lies between
\* its first "@" and its second one (or its end).
SplitAt1(s) == BeforeAt(From(s, Len(BeforeAt(s)) + 2))

\* s < t by code points, as Python compares strings.
RECURSIVE LexLess(_, _)
LexLess(s, t) ==
    IF t = <<>> THEN FALSE
    ELSE IF s = <<>> THEN TRUE
    ELSE IF Code(Head(s)) # Code(Head(t)) THEN Code(Head(s)) < Code(Head(t))
    ELSE LexLess(Tail(s), Tail(t))

\* sorted(S) / ORDER BY x for a set of strings.
RECURSIVE Sorted(_)
Sorted(S) ==
    IF S = {} THEN <<>>
    ELSE LET m == CHOOSE x \in S : \A y \in S \ {x} : LexLess(x, y)
         IN  <<m>> \o Sorted(S \ {m})

\* ORDER BY id DESC
RECURSIVE OrderByIdDesc(_)
OrderByIdDesc(rows) ==
    IF rows = {} THEN <<>>
    ELSE LET m == CHOOSE r \in rows : \A q \in rows : q.id <= r.id
         IN  <<m>> \o OrderByIdDesc(rows \ {m})

\* ---------------------------------------------------------- the data layer

\* The (success, error) pair add_patient and update_patient return.
Ok == [ok |-> TRUE, err |-> NULL]
EmailExists == [ok |-> FALSE, err |-> "Email already exists."]

\* A call that returns None.
NoRet == [none |-> TRUE]

IdsOf(rows) == {r.id : r \in rows}

MaxOf(S) == IF S = {} THEN 0 ELSE CHOOSE m \in S : \A x \in S : x <= m

\* Mutant of NextRowid: id INTEGER PRIMARY KEY without AUTOINCREMENT, which
\* gives one more than the largest rowid now in the table.
NextRowidNoAutoincrement(rows, seq) == MaxOf(IdsOf(rows)) + 1

\* The rowid INTEGER PRIMARY KEY AUTOINCREMENT gives a new row: one more
\* than the largest rowid the table has ever held.
NextRowid(rows, seq) == MaxOf(IdsOf(rows) \cup {seq}) + 1

\* Mutant of UniqueViolation: uniqueness checked when a row is inserted but
\* not when one is updated.
UniqueOnInsertOnly(rows, id, em) ==
    id \notin IdsOf(rows) /\ \E r \in rows : r.email = em

\* Mutant of UniqueViolation: the row being written counts as a collision
\* with itself.
UniqueIgnoresRowid(rows, id, em) == \E r \in rows : r.email = em

\* email TEXT UNIQUE: the rows an INSERT or UPDATE of email em into the row
\* with rowid id would collide with.
UniqueViolation(rows, id, em) == \E r \in rows : r.id # id /\ r.email = em

\* UPDATE patients SET date_of_entry = ? WHERE date_of_entry IS NULL
BackfillRows(rows, today_iso) ==
    { IF r.date_of_entry = NULL THEN [r EXCEPT !.date_of_entry = today_iso] ELSE r
      : r \in rows }

\* Mutant of add_patient: INSERT OR REPLACE, which deletes the row holding
\* the email and inserts the new one.
add_patient_or_replace(rows, seq, f) ==
    LET id == MaxOf(IdsOf(rows) \cup {seq}) + 1 IN
    [patients |-> {r \in rows : r.email # f.email} \cup {Row(id, f)},
     seq |-> id, ret |-> Ok]

\* Mutant of add_patient: first_name and last_name bound in the wrong order.
add_patient_names_swapped(rows, seq, f) ==
    LET id == MaxOf(IdsOf(rows) \cup {seq}) + 1 IN
    IF \E r \in rows : r.email = f.email
    THEN [patients |-> rows, seq |-> seq, ret |-> EmailExists]
    ELSE [patients |-> rows \cup
                       {Row(id, [f EXCEPT !.first_name = f.last_name,
                                          !.last_name = f.first_name])},
          seq |-> id, ret |-> Ok]

\* add_patient: [patients, seq, ret] after the INSERT.
add_patient(rows, seq, f) ==
    LET id == NextRowid(rows, seq) IN
    IF UniqueViolation(rows, id, f.email)
    THEN [patients |-> rows, seq |-> seq, ret |-> EmailExists]
    ELSE [patients |-> rows \cup {Row(id, f)}, seq |-> id, ret |-> Ok]

\* get_all_patients
get_all_patients(rows) == [rows |-> OrderByIdDesc(rows)]

\* get_patient_by_id: fetchone() gives the row, or None.
get_patient_by_id(rows, patient_id) ==
    LET hit == {r \in rows : r.id = patient_id} IN
    IF hit = {} THEN [found |-> FALSE]
    ELSE [found |-> TRUE, row |-> CHOOSE r \in hit : TRUE]

\* update_patient: [patients, ret] after the UPDATE ... WHERE id=?.
update_patient(rows, patient_id, f) ==
    LET hit == {r \in rows : r.id = patient_id} IN
    IF hit # {} /\ UniqueViolation(rows, patient_id, f.email)
    THEN [patients |-> rows, ret |-> EmailExists]
    ELSE [patients |-> (rows \ hit) \cup {Row(r.id, f) : r \in hit}, ret |-> Ok]

\* delete_patient
delete_patient(rows, patient_id) == {r \in rows : r.id # patient_id}

\* The WHERE clause search_patients builds.
SearchWhere(r, query, last_name_filter, email_domain_filter) ==
    /\ Truthy(query) =>
         LET like_query == <<"%">> \o query \o <<"%">> IN
         \/ Like(like_query, r.first_name)
         \/ Like(like_query, r.last_name)
         \/ Like(like_query, r.email)
         \/ Like(like_query, r.phone)
    /\ (Truthy(last_name_filter) /\ last_name_filter # All) =>
         r.last_name = last_name_filter
    /\ (Truthy(email_domain_filter) /\ email_domain_filter # All) =>
         Like(<<"%", "@">> \o email_domain_filter, r.email)

\* search_patients
search_patients(rows, query, last_name_filter, email_domain_filter) ==
    [rows |-> OrderByIdDesc(
        {r \in rows : SearchWhere(r, query, last_name_filter, email_domain_filter)})]

\* get_all_last_names
get_all_last_names(rows) ==
    [names |-> Sorted({r.last_name : r \in {q \in rows : q.last_name # <<>>}})]

\* get_all_email_domains
get_all_email_domains(rows) ==
    [domains |-> Sorted({SplitAt1(r.email) : r \in {q \in rows : HasAt(q.email)}})]

\* The (query, last_name_filter, email_domain_filter) triples tried: the
\* select boxes' sentinel, a default None, exact and free-text filters, and
\* free text holding the characters LIKE reads as wildcards.
SearchArgs ==
    { <<<<>>, All, All>>,
      <<<<>>, Smith, DomainX>>,
      <<<<>>, smith, All>>,
      <<<<"s", "m">>, All, All>>,
      <<<<"5", "5">>, Jones, All>>,
      <<<<"J", "o">>, None, DomainX>>,
      <<<<"_">>, All, All>>,
      <<<<"%">>, All, All>> }

\* ----------------------------------------------------------- initial state

NoCall == [op |-> "none"]

\* The script has not run yet: patients.db is absent, or holds a table of
\* the earlier schema.
Init ==
    /\ \/ /\ tableExists = FALSE
          /\ columns = {}
          /\ patients = {}
          /\ sqlite_sequence = 0
          /\ everIds = {}
       \/ \E t \in LegacyTables :
          /\ tableExists = TRUE
          /\ columns = BaseColumns
          /\ patients = t.rows
          /\ sqlite_sequence = t.seq
          /\ everIds = t.ever
    /\ pc = "boot"
    /\ failedStep = "none"
    /\ open = 0
    /\ lastCall = NoCall
    /\ ret = NoRet

\* ------------------------------------------------------- startup: init_db()

\* init_db, up to its commit: open a connection, CREATE TABLE IF NOT EXISTS.
\* A failing statement raises out of init_db and ends the script run with
\* the connection still open.
InitDbCreateTable ==
    /\ pc = "boot"
    /\ open < MaxLeaked
    /\ \E fault \in BOOLEAN :
         /\ open' = open + 1
         /\ lastCall' = [op |-> "init_db"]
         /\ ret' = NoRet
         /\ IF fault
            THEN /\ pc' = "crashed"
                 /\ failedStep' = "table"
                 /\ UNCHANGED store
            ELSE /\ pc' = "created"
                 /\ failedStep' = "none"
                 /\ tableExists' = TRUE
                 /\ columns' = IF tableExists THEN columns ELSE BaseColumns
                 /\ UNCHANGED <<patients, sqlite_sequence, everIds>>

\* migrate_db, up to the backfill: a second connection, PRAGMA table_info,
\* and an ALTER TABLE for each missing date column. Each ALTER TABLE takes
\* effect as it runs; a failing statement raises out of migrate_db and
\* init_db, neither of which closes its connection on the way.
MigrateDbColumns ==
    /\ pc = "created"
    /\ \E fault \in {"none", "pragma", "alter_dob", "alter_doe"} :
         /\ fault = "alter_dob" => "date_of_birth" \notin columns
         /\ fault = "alter_doe" => "date_of_entry" \notin columns
         /\ open' = open + 1
         /\ lastCall' = [op |-> "migrate_db"]
         /\ ret' = NoRet
         /\ columns' = CASE fault = "none" -> columns \cup {"date_of_birth", "date_of_entry"}
                         [] fault = "alter_doe" -> columns \cup {"date_of_birth"}
                         [] OTHER -> columns
         /\ pc' = IF fault = "none" THEN "migrated" ELSE "crashed"
         /\ failedStep' = IF fault = "none" THEN "none" ELSE "columns"
         /\ UNCHANGED <<tableExists, patients, sqlite_sequence, everIds>>

\* The rest of migrate_db and of init_db: the backfill UPDATE inside
\* try/except Exception: pass, commit, close; then init_db closes its own
\* connection and the script goes on to serve the page.
MigrateDbBackfill ==
    /\ pc = "migrated"
    /\ \E today_iso \in Today, fault \in BOOLEAN :
         /\ patients' = IF fault THEN patients ELSE BackfillRows(patients, today_iso)
         /\ failedStep' = IF fault THEN "backfill" ELSE "none"
         /\ pc' = "serving"
         /\ open' = open - 2
         /\ lastCall' = [op |-> "migrate_db"]
         /\ ret' = NoRet
         /\ UNCHANGED <<tableExists, columns, sqlite_sequence, everIds>>

\* Streamlit runs the script again from the top (any interaction, or a
\* reload after an uncaught exception).
Rerun ==
    /\ pc \in {"serving", "crashed"}
    /\ pc' = "boot"
    /\ failedStep' = "none"
    /\ lastCall' = NoCall
    /\ ret' = NoRet
    /\ UNCHANGED <<store, open>>

\* The interpreter finalises a Connection object nothing refers to any more.
Finalize ==
    /\ pc \in {"boot", "serving", "crashed"}
    /\ open > 0
    /\ open' = open - 1
    /\ lastCall' = NoCall
    /\ ret' = NoRet
    /\ UNCHANGED <<store, pc, failedStep>>

\* ------------------------------------------------------ data-layer calls

AddPatient ==
    /\ pc = "serving"
    /\ \E f \in FieldSets :
         LET res == add_patient(patients, sqlite_sequence, f) IN
         /\ sqlite_sequence < MaxId \/ res.ret # Ok
         /\ patients' = res.patients
         /\ sqlite_sequence' = res.seq
         /\ everIds' = everIds \cup IdsOf(res.patients)
         /\ lastCall' = [op |-> "add", fields |-> f]
         /\ ret' = res.ret
    /\ UNCHANGED <<tableExists, columns, pc, failedStep, open>>

GetAllPatients ==
    /\ pc = "serving"
    /\ lastCall' = [op |-> "list"]
    /\ ret' = get_all_patients(patients)
    /\ UNCHANGED <<store, pc, failedStep, open>>

GetPatientById ==
    /\ pc = "serving"
    /\ \E id \in Ids :
         /\ lastCall' = [op |-> "get", id |-> id]
         /\ ret' = get_patient_by_id(patients, id)
    /\ UNCHANGED <<store, pc, failedStep, open>>

UpdatePatient ==
    /\ pc = "serving"
    /\ \E id \in Ids, f \in FieldSets :
         LET res == update_patient(patients, id, f) IN
         /\ patients' = res.patients
         /\ lastCall' = [op |-> "update", id |-> id, fields |-> f]
         /\ ret' = res.ret
    /\ UNCHANGED <<tableExists, columns, sqlite_sequence, everIds, pc, failedStep, open>>

DeletePatient ==
    /\ pc = "serving"
    /\ \E id \in Ids :
         /\ patients' = delete_patient(patients, id)
         /\ lastCall' = [op |-> "delete", id |-> id]
         /\ ret' = NoRet
    /\ UNCHANGED <<tableExists, columns, sqlite_sequence, everIds, pc, failedStep, open>>

SearchPatients ==
    /\ pc = "serving"
    /\ \E a \in SearchArgs :
         /\ lastCall' = [op |-> "search", query |-> a[1], last_name_filter |-> a[2],
                         email_domain_filter |-> a[3]]
         /\ ret' = search_patients(patients, a[1], a[2], a[3])
    /\ UNCHANGED <<store, pc, failedStep, open>>

GetAllLastNames ==
    /\ pc = "serving"
    /\ lastCall' = [op |-> "last_names"]
    /\ ret' = get_all_last_names(patients)
    /\ UNCHANGED <<store, pc, failedStep, open>>

\* get_all_email_domains returns without closing its connection.
GetAllEmailDomains ==
    /\ pc = "serving"
    /\ open < MaxLeaked
    /\ open' = open + 1
    /\ lastCall' = [op |-> "email_domains"]
    /\ ret' = get_all_email_domains(patients)
    /\ UNCHANGED <<store, pc, failedStep>>

Next ==
    \/ InitDbCreateTable
    \/ MigrateDbColumns
    \/ MigrateDbBackfill
    \/ Rerun
    \/ Finalize
    \/ AddPatient
    \/ GetAllPatients
    \/ GetPatientById
    \/ UpdatePatient
    \/ DeletePatient
    \/ SearchPatients
    \/ GetAllLastNames
    \/ GetAllEmailDomains

Spec == Init /\ [][Next]_vars

\* ------------------------------------------------------------------ claims

StoreOps == {"add", "get", "update", "delete", "list", "search"}

DataLayerOps == StoreOps \cup {"init_db", "migrate_db", "last_names", "email_domains"}

AtRest == pc \in {"boot", "serving", "crashed"}

\* C1: in every reachable state no two stored rows have the same email.
C1_EmailUnique ==
    \A r1 \in patients, r2 \in patients : r1.email = r2.email => r1 = r2

\* C1 witness: two rows are stored and the store has just refused an update
\* that would have given one of them the other's email.
C1_Witness ==
    /\ lastCall.op = "update"
    /\ ret = EmailExists
    /\ lastCall.id \in IdsOf(patients)
    /\ Cardinality(patients) >= 2

\* C2: an add whose email equals the email of a stored row returns the
\* duplicate-email error and leaves the set of stored rows as it was.
C2_AddDuplicateRejected ==
    [][\A f \in FieldSets :
          (/\ lastCall' = [op |-> "add", fields |-> f]
           /\ \E r \in patients : r.email = f.email)
          => (ret' = EmailExists /\ patients' = patients)]_vars

\* C2 witness: an add has just been refused for a duplicate email.
C2_Witness ==
    /\ lastCall.op = "add"
    /\ ret = EmailExists
    /\ \E r \in patients : r.email = lastCall.fields.email

\* C3 as stated: a successful add returns the id of the new row, and get on
\* the returned id yields the fields passed to add.
C3_AddReturnsId ==
    (lastCall.op = "add" /\ ret.ok)
    => /\ "id" \in DOMAIN ret
       /\ get_patient_by_id(patients, ret.id)
            = [found |-> TRUE, row |-> Row(ret.id, lastCall.fields)]

\* C3 amended: a successful add returns the pair (True, None) and no id; it
\* inserts exactly one row, under an id no stored row had, and get on that
\* id yields a record whose seven fields equal the values passed to add.
C3_AddThenGet ==
    [][(lastCall'.op = "add" /\ ret'.ok)
       => /\ ret' = Ok
          /\ \E id \in IdsOf(patients') \ IdsOf(patients) :
               /\ patients' = patients \cup {Row(id, lastCall'.fields)}
               /\ get_patient_by_id(patients', id)
                    = [found |-> TRUE, row |-> Row(id, lastCall'.fields)]]_vars

\* C3 witness: an add has just succeeded and its row is stored.
C3_Witness ==
    /\ lastCall.op = "add"
    /\ ret = Ok
    /\ get_patient_by_id(patients, sqlite_sequence)
         = [found |-> TRUE, row |-> Row(sqlite_sequence, lastCall.fields)]

\* C4 as stated: update with an id no stored row has does not report
\* success, and leaves the table unchanged.
C4_UpdateMissingFails ==
    [][(lastCall'.op = "update" /\ lastCall'.id \notin IdsOf(patients))
       => (~ret'.ok /\ patients' = patients)]_vars

\* C5: an id that appears in the table was never the id of a stored row
\* before, and every successful add makes such an id appear.
C5_IdNeverReused ==
    [][/\ \A id \in IdsOf(patients') \ IdsOf(patients) : id \notin everIds
       /\ (lastCall'.op = "add" /\ ret'.ok)
            => IdsOf(patients') \ IdsOf(patients) # {}]_vars

\* C5 witness: an add has just succeeded after the row that had the highest
\* id was deleted.
C5_Witness ==
    /\ lastCall.op = "add"
    /\ ret = Ok
    /\ sqlite_sequence \in IdsOf(patients)
    /\ (sqlite_sequence - 1) \in everIds \ IdsOf(patients)

\* C6 as stated: once the migration step of a run has run, date_of_entry is
\* non-null for every stored row.
C6_DateOfEntryNonNull ==
    pc = "serving" => \A r \in patients : r.date_of_entry # NULL

\* C7 as stated: no Record Store operation is served in a run in which one
\* of the three startup steps failed.
C7_NoServiceAfterFailedStartup ==
    lastCall.op \in StoreOps => failedStep = "none"

\* C8: an update of a stored id whose email no other row holds succeeds, and
\* get on that id then returns the same id with the new fields.
C8_UpdateThenGet ==
    [][\A id \in Ids, f \in FieldSets :
          (/\ lastCall' = [op |-> "update", id |-> id, fields |-> f]
           /\ id \in IdsOf(patients)
           /\ ~ \E r \in patients : r.id # id /\ r.email = f.email)
          => /\ ret' = Ok
             /\ get_patient_by_id(patients', id)
                  = [found |-> TRUE, row |-> Row(id, f)]]_vars

\* C8 witness: an update has just succeeded on a stored row while another
\* row is stored.
C8_Witness ==
    /\ lastCall.op = "update"
    /\ ret = Ok
    /\ Row(lastCall.id, lastCall.fields) \in patients
    /\ Cardinality(patients) >= 2

\* text occurs in str, letters compared without regard to ASCII case.
OccursIn(text, str) ==
    \E i \in 1..(Len(str) - Len(text) + 1) :
        \A k \in 1..Len(text) : FoldCode(str[i + k - 1]) = FoldCode(text[k])

\* str ends with text, letters compared without regard to ASCII case.
EndsWith(str, text) ==
    /\ Len(text) <= Len(str)
    /\ \A k \in 1..Len(text) :
         FoldCode(str[Len(str) - Len(text) + k]) = FoldCode(text[k])

\* The rows C9 says a search keeps.
C9_Keeps(r, query, last_name_filter, email_domain_filter) ==
    /\ query # <<>> =>
         \/ OccursIn(query, r.first_name)
         \/ OccursIn(query, r.last_name)
         \/ OccursIn(query, r.email)
         \/ OccursIn(query, r.phone)
    /\ (Truthy(last_name_filter) /\ last_name_filter # All) =>
         r.last_name = last_name_filter
    /\ (Truthy(email_domain_filter) /\ email_domain_filter # All) =>
         EndsWith(r.email, <<"@">> \o email_domain_filter)

\* C9 as stated: search returns exactly the stored rows that satisfy every
\* active filter (free text as a substring), in strictly descending id order.
C9_SearchExact ==
    lastCall.op = "search" =>
      LET rs == ret.rows IN
      /\ \A i \in 1..(Len(rs) - 1) : rs[i].id > rs[i + 1].id
      /\ {rs[i] : i \in 1..Len(rs)}
           = {r \in patients : C9_Keeps(r, lastCall.query, lastCall.last_name_filter,
                                        lastCall.email_domain_filter)}

\* C10 as stated: whenever no data-layer call is in progress, no connection
\* is open.
C10_HandlesReleased ==
    (AtRest /\ lastCall.op \in DataLayerOps) => open = 0

====
